---- MODULE Spec2Model ----
(***************************************************************************)
(* LearnTA: the automaton simplification engine (timed_automaton.cc) and   *)
(* the imprecise-clock guard-relaxation engine (imprecise_clock_handler.hh)*)
(*                                                                         *)
(* Clock valuations are kept in the region abstraction: for a clock x and  *)
(* constants 0..MaxConst the value of x is one of the regions              *)
(*   0 = {0}, 1 = (0,1), 2 = {1}, 3 = (1,2), ... , Top = [MaxConst+1, oo)  *)
(* so the point c is region 2c and the open interval (c,c+1) is 2c+1.      *)
(* A double constant of a reset is kept as the number of its halves        *)
(* (0.0 is 0, 0.5 is 1, 1.0 is 2), which is also its region.               *)
(***************************************************************************)
EXTENDS Integers, Sequences, FiniteSets, TLC

\* ------------------------------------------------------------- bounds
\* largest constant a guard compares a clock with
MaxConst == 3
\* number of transitions the learner adds before it calls the engine
MaxTransitions == 3
\* number of transitions the learner adds before it runs the handler
MaxRunTransitions == 2
\* number of pairs push() puts in the work-set before run()
MaxPush == 2
\* number of values of the hash of a pair
HashMod == 1021
\* largest integer part of a duration bound of a timed condition
MaxCond == 1

\* the last region holds every value from MaxConst + 1 on
Top == 2 * MaxConst + 2
Regions == 0 .. Top
\* the clock variables of the automaton (ClockVariables, 0-based)
ClockVars == {0, 1}

\* the TAState objects of the automaton, by identity
StateIds == {1, 2, 3}
\* Alphabet is char; UNOBSERVABLE is the distinguished silent action
UNOBSERVABLE == 0
ActA == 97
ActB == 98
CharMax == 127

None == [none |-> TRUE]

\* ------------------------------------------------------------ helpers
Min(S) == CHOOSE m \in S : \A n \in S : m <= n
Max(S) == CHOOSE m \in S : \A n \in S : m >= n
RemoveAt(seq, i) == SubSeq(seq, 1, i - 1) \o SubSeq(seq, i + 1, Len(seq))
Range(seq) == {seq[i] : i \in 1 .. Len(seq)}
\* the keys of a map<Alphabet, ...> in the order the loops of the model visit them
RECURSIVE SortedSeq(_)
SortedSeq(S) ==
    IF S = {} THEN <<>> ELSE LET m == Min(S) IN <<m>> \o SortedSeq(S \ {m})

\* ------------------------------------------- constraints and guards
\* Constraint {x, odr, c}: x < c, x <= c, x >= c, x > c
Lt(x, c) == [x |-> x, odr |-> "lt", c |-> c]
Le(x, c) == [x |-> x, odr |-> "le", c |-> c]
Ge(x, c) == [x |-> x, odr |-> "ge", c |-> c]
Gt(x, c) == [x |-> x, odr |-> "gt", c |-> c]

isUpperBound(k) == k.odr \in {"lt", "le"}

\* whether a clock value in region r satisfies constraint k
SatisfiesConstraint(r, k) ==
    CASE k.odr = "lt" -> r < 2 * k.c
      [] k.odr = "le" -> r <= 2 * k.c
      [] k.odr = "ge" -> r >= 2 * k.c
      [] k.odr = "gt" -> r > 2 * k.c

\* a valuation v (a region for every clock) satisfies every constraint of g
SatisfiesGuard(v, g) == \A i \in 1 .. Len(g) : SatisfiesConstraint(v[g[i].x], g[i])

\* the regions of clock x that the constraints of g on x allow; a guard has no
\* diagonal constraint, so its zone is the product of these sets
Allowed(g, x) ==
    {r \in Regions : \A i \in 1 .. Len(g) : g[i].x = x => SatisfiesConstraint(r, g[i])}

ClocksOf(g) == {g[i].x : i \in 1 .. Len(g)}

satisfiable(g) == \A x \in ClocksOf(g) : Allowed(g, x) # {}

conjunction(g1, g2) == g1 \o g2

\* isWeaker(left, right): every valuation that satisfies right satisfies left
isWeaker(left, right) ==
    \/ ~satisfiable(right)
    \/ \A x \in ClocksOf(left) : Allowed(right, x) \subseteq Allowed(left, x)

\* the constraints that bound clock x to the regions lo..hi
BoundsOf(x, lo, hi) ==
    (IF lo = 0 THEN <<>>
     ELSE IF lo % 2 = 0 THEN <<Ge(x, lo \div 2)>> ELSE <<Gt(x, (lo - 1) \div 2)>>)
    \o
    (IF hi >= Top THEN <<>>
     ELSE IF hi % 2 = 0 THEN <<Le(x, hi \div 2)>> ELSE <<Lt(x, (hi + 1) \div 2)>>)

RECURSIVE HullOver(_, _)
HullOver(gs, xs) ==
    IF xs = <<>> THEN <<>>
    ELSE LET x == Head(xs)
             P == UNION {Allowed(g, x) : g \in gs}
         IN  BoundsOf(x, Min(P), Max(P)) \o HullOver(gs, Tail(xs))

\* unionHull(guards): the smallest guard whose zone contains every guard's zone
unionHull(guards) ==
    LET gs == {g \in Range(guards) : satisfiable(g)}
    IN  IF gs = {} THEN <<Lt(0, 0)>> ELSE HullOver(gs, SortedSeq(ClockVars))

\* ------------------------------------------------------- transitions
\* a reset value is std::variant<double, ClockVariables>: index 0 is a constant
ConstVal(halves) == [index |-> 0, val |-> halves]
ClockVal(y) == [index |-> 1, val |-> y]

TATransition(target, resetVars, guard) ==
    [target |-> target, resetVars |-> resetVars, guard |-> guard]

\* number of resets to a constant that is not an integer
impreciseConstantAssignSize(resets) ==
    Cardinality({i \in 1 .. Len(resets) :
        resets[i][2].index = 0 /\ resets[i][2].val % 2 # 0})

VARIABLES
    states,             \* TimedAutomaton::states
    initialStates,      \* TimedAutomaton::initialStates
    isMatch,            \* TAState::isMatch of every state object
    next,               \* TAState::next of every state object
    ndebug,             \* whether the build defines NDEBUG (assert compiled out)
    pc,                 \* where the program is
    op,                 \* the last operation called and what it reported
    impreciseNeighbors, \* ImpreciseClockHandler::impreciseNeighbors
    visited,            \* run(): visitedImpreciseNeighborsHash
    curState,           \* run(): state
    neighbor,           \* run(): neighbor
    matchBounded,       \* run(): matchBounded
    noMatch,            \* run(): noMatch
    todo                \* run(): the actions of state->next still to scan this round

runVars == <<impreciseNeighbors, visited, curState, neighbor, matchBounded, noMatch, todo>>
vars == <<states, initialStates, isMatch, next, ndebug, pc, op, runVars>>

EmptyNext == [s \in StateIds |-> <<>>]

\* a handler that was constructed and not used
HandlerIdle ==
    /\ impreciseNeighbors = {}
    /\ visited = {}
    /\ curState = 1
    /\ neighbor = None
    /\ matchBounded = FALSE
    /\ noMatch = FALSE
    /\ todo = {}

\* state->next[action].emplace_back(target, resets, guard)
EmplaceBack(nx, s, a, t) ==
    [nx EXCEPT ![s] =
        IF a \in DOMAIN nx[s]
        THEN [nx[s] EXCEPT ![a] = Append(@, t)]
        ELSE [b \in DOMAIN nx[s] \cup {a} |-> IF b = a THEN <<t>> ELSE nx[s][b]]]

\* the number of transitions of one state / of the automaton
StateTransitionCount(m) ==
    LET n(a) == IF a \in DOMAIN m THEN Len(m[a]) ELSE 0
    IN  n(UNOBSERVABLE) + n(ActA) + n(ActB)

TransitionCount(nx) ==
    StateTransitionCount(nx[1]) + StateTransitionCount(nx[2]) + StateTransitionCount(nx[3])

\* ------------------------------------------------ TAState operations
\* deterministic() with the scan of the earlier transitions starting one too late
DeterministicSkipsFirst(nx) ==
    \A a \in DOMAIN nx :
        LET transitions == nx[a]
        IN  \A it \in 1 .. Len(transitions) :
                ~ \E j \in 2 .. (it - 1) :
                    satisfiable(conjunction(transitions[j].guard, transitions[it].guard))

\* TAState::deterministic(): for every action, no transition's guard is jointly
\* satisfiable with the guard of a transition before it in the list
deterministic(nx) ==
    \A a \in DOMAIN nx :
        LET transitions == nx[a]
        IN  \A it \in 1 .. Len(transitions) :
                ~ \E j \in 1 .. (it - 1) :
                    satisfiable(conjunction(transitions[j].guard, transitions[it].guard))

\* first loop of mergeNondeterministicBranching ("Remove weaker guards"): it2 is
\* erased when another, different transition to the same target has a guard
\* that is weaker than it2's
RECURSIVE RemoveWeakerGuards(_, _)
RemoveWeakerGuards(transitions, it2) ==
    IF it2 > Len(transitions) THEN transitions
    ELSE IF \E j \in 1 .. Len(transitions) :
                /\ transitions[it2] # transitions[j]
                /\ isWeaker(transitions[j].guard, transitions[it2].guard)
                /\ transitions[j].target = transitions[it2].target
         THEN RemoveWeakerGuards(RemoveAt(transitions, it2), it2)
         ELSE RemoveWeakerGuards(transitions, it2 + 1)

\* MergePair that forgets to widen the guard of it2
MergePairKeepsGuard(t2, t3) ==
    LET takeRight == impreciseConstantAssignSize(t2.resetVars)
                        < impreciseConstantAssignSize(t3.resetVars)
    IN  [target    |-> IF takeRight THEN t3.target ELSE t2.target,
         resetVars |-> IF takeRight THEN t3.resetVars ELSE t2.resetVars,
         guard     |-> t2.guard]

\* MergePair with <= in place of <: on a tie the later transition wins
MergePairTieTakesLater(t2, t3) ==
    LET takeRight == impreciseConstantAssignSize(t2.resetVars)
                        <= impreciseConstantAssignSize(t3.resetVars)
    IN  [target    |-> IF takeRight THEN t3.target ELSE t2.target,
         resetVars |-> IF takeRight THEN t3.resetVars ELSE t2.resetVars,
         guard     |-> unionHull(<<t2.guard, t3.guard>>)]

\* the body of the second loop for one satisfiable pair (it2, it3): the reset
\* and the target come from the side with more imprecise constant assignments,
\* the guard becomes the union hull
MergePair(t2, t3) ==
    LET takeRight == impreciseConstantAssignSize(t2.resetVars)
                        < impreciseConstantAssignSize(t3.resetVars)
    IN  [target    |-> IF takeRight THEN t3.target ELSE t2.target,
         resetVars |-> IF takeRight THEN t3.resetVars ELSE t2.resetVars,
         guard     |-> unionHull(<<t2.guard, t3.guard>>)]

\* assert(it2->target->isMatch == it3->target->isMatch): the program stops here
\* when the assertion fails, unless NDEBUG compiled the assertion out
AssertionStops(t2, t3, match, nd) ==
    match[t2.target] # match[t3.target] /\ ~nd

\* second loop of mergeNondeterministicBranching over one action's list.
\* r.transitions is the list, r.aborted whether the assertion stopped the program,
\* r.mismatch whether a satisfiable pair with different isMatch was met,
\* r.merged the pairs merged so far
RECURSIVE MergeSatisfiable(_, _, _, _, _)
MergeSatisfiable(r, it2, it3, match, nd) ==
    LET ts == r.transitions IN
    IF it2 > Len(ts) THEN r
    ELSE IF it3 > Len(ts) THEN MergeSatisfiable(r, it2 + 1, it2 + 2, match, nd)
    ELSE IF satisfiable(conjunction(ts[it2].guard, ts[it3].guard))
         THEN LET differ == match[ts[it2].target] # match[ts[it3].target] IN
              IF AssertionStops(ts[it2], ts[it3], match, nd)
              THEN [r EXCEPT !.aborted = TRUE, !.mismatch = TRUE]
              ELSE LET m == MergePair(ts[it2], ts[it3])
                       ts2 == RemoveAt([ts EXCEPT ![it2] = m], it3)
                   IN  MergeSatisfiable(
                           [transitions |-> ts2,
                            aborted     |-> FALSE,
                            mismatch    |-> r.mismatch \/ differ,
                            merged      |-> Append(r.merged,
                                [it2 |-> ts[it2], it3 |-> ts[it3], out |-> m])],
                           it2, it3, match, nd)
         ELSE MergeSatisfiable(r, it2, it3 + 1, match, nd)

\* both loops for one action's list
MergeList(transitions, match, nd) ==
    MergeSatisfiable([transitions |-> RemoveWeakerGuards(transitions, 1),
                      aborted |-> FALSE, mismatch |-> FALSE, merged |-> <<>>],
                     1, 2, match, nd)

\* the outer loop over this->next; the actions are visited in ascending order
\* and nothing more is done once the assertion has stopped the program
RECURSIVE MergeActions(_, _, _, _)
MergeActions(r, actions, match, nd) ==
    IF actions = <<>> \/ r.aborted THEN r
    ELSE LET a == Head(actions)
             m == MergeList(r.next[a], match, nd)
         IN  MergeActions([next     |-> [r.next EXCEPT ![a] = m.transitions],
                           aborted  |-> m.aborted,
                           mismatch |-> r.mismatch \/ m.mismatch,
                           merged   |-> r.merged \o m.merged],
                          Tail(actions), match, nd)

mergeNondeterministicBranching(nx, match, nd) ==
    MergeActions([next |-> nx, aborted |-> FALSE, mismatch |-> FALSE, merged |-> <<>>],
                 SortedSeq(DOMAIN nx), match, nd)

\* addUpperBound(guard): a guard without upper bound gets the constraint bound,
\* an upper bound; the call chooses which
addUpperBound(guard, bound) ==
    IF \E i \in 1 .. Len(guard) : isUpperBound(guard[i]) THEN guard ELSE Append(guard, bound)

\* addUpperBoundForUnobservableTransitions() bounding the guards of every action
AddUpperBoundForAllTransitions(nx, bound) ==
    [a \in DOMAIN nx |->
        [i \in 1 .. Len(nx[a]) |->
            [nx[a][i] EXCEPT !.guard = addUpperBound(@, bound)]]]

addUpperBoundForUnobservableTransitions(nx, bound) ==
    IF UNOBSERVABLE \in DOMAIN nx
    THEN [nx EXCEPT ![UNOBSERVABLE] =
            [i \in 1 .. Len(@) |-> [@[i] EXCEPT !.guard = addUpperBound(@, bound)]]]
    ELSE nx

\* ---------------------------------------------------- zone automaton
\* A zone is a set of valuations; a state of the zone automaton is a pair
\* <<TA state, zone>>.
\* the clocks the automaton uses: 0 .. the largest clock of a guard or a reset
ClocksUsed(nx) ==
    LET ts == UNION {UNION {Range(nx[q][a]) : a \in DOMAIN nx[q]} : q \in StateIds}
        xs == UNION {ClocksOf(t.guard)
                        \cup {t.resetVars[i][1] : i \in 1 .. Len(t.resetVars)}
                        \cup {t.resetVars[i][2].val :
                                 i \in {j \in 1 .. Len(t.resetVars) :
                                           t.resetVars[j][2].index = 1}} : t \in ts}
    IN  IF xs = {} THEN {} ELSE 0 .. Max(xs)

ZeroValuation(nx) == [x \in ClocksUsed(nx) |-> 0]

\* one symbolic time step: every clock moves to its next region
TimeSuccessor(v) == [x \in DOMAIN v |-> IF v[x] < Top THEN v[x] + 1 ELSE Top]

RECURSIVE Elapse(_)
Elapse(Z) ==
    LET Z2 == Z \cup {TimeSuccessor(v) : v \in Z}
    IN  IF Z2 = Z THEN Z ELSE Elapse(Z2)

\* the reset map applied at once: every right-hand side reads the old valuation
RECURSIVE ApplyResetsFrom(_, _, _, _)
ApplyResetsFrom(old, v, resets, i) ==
    IF i > Len(resets) THEN v
    ELSE LET x == resets[i][1]
             val == resets[i][2]
             r == IF val.index = 0
                  THEN (IF val.val < Top THEN val.val ELSE Top)
                  ELSE old[val.val]
         IN  ApplyResetsFrom(old, [v EXCEPT ![x] = r], resets, i + 1)

ApplyResets(v, resets) == ApplyResetsFrom(v, v, resets, 1)

\* the zone after transition t from zone Z: intersect with the guard, apply the
\* resets, let time pass
ZonePost(Z, t) ==
    Elapse({ApplyResets(v, t.resetVars) : v \in {w \in Z : SatisfiesGuard(w, t.guard)}})

\* the edges leaving zone-automaton state n: <<source, action, transition, target>>
ZAEdgesFrom(n, nx) ==
    LET m == nx[n[1]]
        cands == UNION {{<<a, m[a][i]>> : i \in 1 .. Len(m[a])} :
                            a \in {b \in DOMAIN m : b < CharMax}}
    IN  {e \in {<<n, c[1], c[2], <<c[2].target, ZonePost(n[2], c[2])>>>> : c \in cands} :
            e[4][2] # {}}

\* ta2za: the zone-automaton states reachable from the initial states
RECURSIVE ZAExplore(_, _, _)
ZAExplore(frontier, seen, nx) ==
    IF frontier = {} THEN seen
    ELSE LET found == {e[4] : e \in UNION {ZAEdgesFrom(n, nx) : n \in frontier}}
             fresh == found \ seen
         IN  ZAExplore(fresh, seen \cup fresh, nx)

ta2za(inits, nx) ==
    LET start == {<<inits[i], Elapse({ZeroValuation(nx)})>> : i \in 1 .. Len(inits)}
    IN  ZAExplore(start, start, nx)

\* removeDeadStates: the zone-automaton states from which an accepting one is reached
RECURSIVE ZABackward(_, _)
ZABackward(live, edges) ==
    LET more == {e[1] : e \in {f \in edges : f[4] \in live}}
    IN  IF more \subseteq live THEN live ELSE ZABackward(live \cup more, edges)

removeDeadStates(nodes, edges, match) ==
    ZABackward({n \in nodes : match[n[1]]}, edges)

\* ---------------------------------------------------- simplifyWithZones
\* LiveOf that takes the live states from the zone automaton before its dead
\* states are removed
LiveOfBeforeRemoval(inits, nx, match) ==
    LET nodes == ta2za(inits, nx)
        edges == UNION {ZAEdgesFrom(n, nx) : n \in nodes}
        live  == removeDeadStates(nodes, edges, match)
    IN  [liveStates |-> {n[1] : n \in nodes},
         liveTransitions |->
            [q \in {n[1] : n \in nodes} |->
                {<<e[2], e[3]>> : e \in {f \in edges :
                    f[1] \in live /\ f[4] \in live /\ f[1][1] = q}}]]

\* liveStates and liveTransitions (lines 18-32): the TA states of the live
\* zone-automaton states, and the <<action, transition>> pairs on the edges
\* between live zone-automaton states
LiveOf(inits, nx, match) ==
    LET nodes == ta2za(inits, nx)
        edges == UNION {ZAEdgesFrom(n, nx) : n \in nodes}
        live  == removeDeadStates(nodes, edges, match)
    IN  [liveStates |-> {n[1] : n \in live},
         liveTransitions |->
            [q \in {n[1] : n \in live} |->
                {<<e[2], e[3]>> : e \in {f \in edges :
                    f[1] \in live /\ f[4] \in live /\ f[1][1] = q}}]]

\* a transition table with the transitions that satisfy Keep(a, t), without the
\* action keys whose list became empty
FilterNext(m, Keep(_, _)) ==
    LET kept == [a \in DOMAIN m |-> SelectSeq(m[a], LAMBDA t : Keep(a, t))]
    IN  [a \in {b \in DOMAIN m : kept[b] # <<>>} |-> kept[a]]

\* PruneDead that forgets to erase the dead states from this->states
PruneDeadKeepsStates(aut, liveStates) ==
    IF Cardinality(liveStates) # Len(aut.states)
    THEN [states |-> aut.states,
          initialStates |-> SelectSeq(aut.initialStates, LAMBDA q : q \in liveStates),
          next |-> [q \in StateIds |->
                        IF q \in Range(aut.states)
                        THEN FilterNext(aut.next[q], LAMBDA a, t : t.target \in liveStates)
                        ELSE <<>>]]
    ELSE aut

\* PruneDead that forgets to erase the dead states from this->initialStates
PruneDeadKeepsInitial(aut, liveStates) ==
    IF Cardinality(liveStates) # Len(aut.states)
    THEN [states |-> SelectSeq(aut.states, LAMBDA q : q \in liveStates),
          initialStates |-> aut.initialStates,
          next |-> [q \in StateIds |->
                        IF q \in Range(aut.states) /\ q \in liveStates
                        THEN FilterNext(aut.next[q], LAMBDA a, t : t.target \in liveStates)
                        ELSE <<>>]]
    ELSE aut

\* PruneDead with the test of line 34 inverted: nothing is erased when some
\* state is not live
PruneDeadOnEqualSize(aut, liveStates) ==
    IF Cardinality(liveStates) = Len(aut.states)
    THEN [states |-> SelectSeq(aut.states, LAMBDA q : q \in liveStates),
          initialStates |-> SelectSeq(aut.initialStates, LAMBDA q : q \in liveStates),
          next |-> [q \in StateIds |->
                        IF q \in Range(aut.states) /\ q \in liveStates
                        THEN FilterNext(aut.next[q], LAMBDA a, t : t.target \in liveStates)
                        ELSE <<>>]]
    ELSE aut

\* lines 34-55: when some state is not live, the dead states leave states and
\* initialStates and the transitions to them leave the lists
PruneDead(aut, liveStates) ==
    IF Cardinality(liveStates) # Len(aut.states)
    THEN [states |-> SelectSeq(aut.states, LAMBDA q : q \in liveStates),
          initialStates |-> SelectSeq(aut.initialStates, LAMBDA q : q \in liveStates),
          next |-> [q \in StateIds |->
                        IF q \in Range(aut.states) /\ q \in liveStates
                        THEN FilterNext(aut.next[q], LAMBDA a, t : t.target \in liveStates)
                        ELSE <<>>]]
    ELSE aut

\* KeepLiveTransitions that keeps every transition of a live state
KeepLiveTransitionsOfLiveStates(aut, liveTransitions) ==
    [aut EXCEPT !.next =
        [q \in StateIds |->
            IF q \notin Range(aut.states) THEN aut.next[q]
            ELSE IF q \notin DOMAIN liveTransitions THEN <<>>
            ELSE aut.next[q]]]

\* lines 57-86: every remaining state keeps, per action, the transitions equal
\* to one in its liveTransitions
KeepLiveTransitions(aut, liveTransitions) ==
    [aut EXCEPT !.next =
        [q \in StateIds |->
            IF q \notin Range(aut.states) THEN aut.next[q]
            ELSE IF q \notin DOMAIN liveTransitions THEN <<>>
            ELSE FilterNext(aut.next[q], LAMBDA a, t : <<a, t>> \in liveTransitions[q])]]

simplifyWithZones(aut, match) ==
    LET l == LiveOf(aut.initialStates, aut.next, match)
    IN  KeepLiveTransitions(PruneDead(aut, l.liveStates), l.liveTransitions)

\* ------------------------------------------------ neighbor conditions
\* NeighborConditions: an elementary language (its word and the region of each
\* of its clocks, clock x at pos[x + 1]) and the set of its imprecise clocks
NeighborConditions(word, pos, imp) == [word |-> word, pos |-> pos, imp |-> imp]

getClockSize(n) == Len(n.pos)

impreciseClocks(n) == n.imp

\* the regions clock x may be in: its own region, and for an imprecise clock
\* the regions next to it
NeighborRange(n, x) ==
    IF x \in n.imp
    THEN (IF n.pos[x + 1] > 0 THEN n.pos[x + 1] - 1 ELSE 0)
            .. (IF n.pos[x + 1] < Top THEN n.pos[x + 1] + 1 ELSE Top)
    ELSE {n.pos[x + 1]}

\* match(transition): some valuation of the neighborhood satisfies the guard
match(n, t) ==
    \A x \in ClocksOf(t.guard) :
        /\ x < getClockSize(n)
        /\ NeighborRange(n, x) \cap Allowed(t.guard, x) # {}

\* toRelaxedGuard(): the guard of the neighborhood, exact on the precise clocks
RECURSIVE RelaxedFrom(_, _)
RelaxedFrom(n, x) ==
    IF x >= getClockSize(n) THEN <<>>
    ELSE LET R == NeighborRange(n, x)
         IN  BoundsOf(x, Min(R), Max(R)) \o RelaxedFrom(n, x + 1)

toRelaxedGuard(n) == RelaxedFrom(n, 0)

\* successor(action): the word grows by the action and a fresh clock starts at 0
successor(n, a) == [word |-> Append(n.word, a), pos |-> Append(n.pos, 0), imp |-> n.imp]

\* successorAssign(): one symbolic time step
successorAssign(n) ==
    [n EXCEPT !.pos = [i \in 1 .. Len(n.pos) |->
                          IF n.pos[i] < Top THEN n.pos[i] + 1 ELSE Top]]

\* the last reset of clock x in a reset map, or None
LastReset(resets, x) ==
    LET I == {i \in 1 .. Len(resets) : resets[i][1] = x}
    IN  IF I = {} THEN None ELSE resets[Max(I)][2]

\* makeAfterExternalTransition(resets, targetClockSize): the clocks below
\* targetClockSize after the resets; a clock stays imprecise unless it is
\* overwritten, and becomes imprecise with a copied imprecise clock or a
\* constant that is no integer
makeAfterExternalTransition(n, resets, targetClockSize) ==
    LET old(x) == IF x < getClockSize(n) THEN n.pos[x + 1] ELSE 0
        new(x) == LET r == LastReset(resets, x)
                  IN  IF r = None THEN old(x)
                      ELSE IF r.index = 0 THEN (IF r.val < Top THEN r.val ELSE Top)
                      ELSE old(r.val)
        imprecise(x) == LET r == LastReset(resets, x)
                        IN  IF r = None THEN x \in n.imp
                            ELSE IF r.index = 0 THEN r.val % 2 # 0
                            ELSE r.val \in n.imp
    IN  [word |-> n.word,
         pos  |-> [i \in 1 .. targetClockSize |-> new(i - 1)],
         imp  |-> {x \in 0 .. (targetClockSize - 1) : imprecise(x)}]

\* boost::hash_value of a <<state, neighbor>> pair, in HashMod values
HashCombine(seed, v) == (seed * 31 + v + 1) % HashMod

RECURSIVE HashSeq(_, _)
HashSeq(seed, seq) ==
    IF seq = <<>> THEN seed ELSE HashSeq(HashCombine(seed, Head(seq)), Tail(seq))

HashValue(p) ==
    HashSeq(HashSeq(HashSeq(HashCombine(0, p[1]), p[2].word), p[2].pos),
            SortedSeq(p[2].imp))

\* ------------------------------------------------ ImpreciseClockHandler
\* lines 54-57: the reset map is the single reset of the fresh clock to 0.0
IsInternalReset(n, t) ==
    /\ Len(t.resetVars) = 1
    /\ t.resetVars[1][1] = getClockSize(n)
    /\ t.resetVars[1][2].index = 0
    /\ t.resetVars[1][2].val = 0

\* lines 62-69: one more than the largest clock in a guard of a transition
\* leaving the target, 0 when there is none
TargetClockSize(m) ==
    LET xs == UNION {UNION {ClocksOf(m[a][i].guard) : i \in 1 .. Len(m[a])} : a \in DOMAIN m}
    IN  IF xs = {} THEN 0 ELSE Max(xs) + 1

\* lines 71-74: constants are assigned to all the clock variables
AllConstantAssigned(resets, targetClockSize) ==
    /\ Len(resets) >= targetClockSize
    /\ \A i \in 1 .. Len(resets) : resets[i][2].index = 0

\* lines 79-93 without the test that the imprecise clock is not used
AllImpreciseOverwrittenIgnoresUse(n, resets) ==
    \A clock \in impreciseClocks(n) :
        \E i \in 1 .. Len(resets) :
            /\ resets[i][1] = clock
            /\ (resets[i][2].index = 1 \/ resets[i][2].val % 2 = 0)

\* lines 79-93: every imprecise clock is overwritten and not used
AllImpreciseOverwritten(n, resets) ==
    \A clock \in impreciseClocks(n) :
        /\ \E i \in 1 .. Len(resets) :
              /\ resets[i][1] = clock
              /\ (resets[i][2].index = 1 \/ resets[i][2].val % 2 = 0)
        /\ ~ \E i \in 1 .. Len(resets) :
              resets[i][2].index = 1 /\ resets[i][2].val = clock

\* lines 38-45 without the removal of the upper bounds
RelaxedGuardKeepsUpperBounds(n, t) == toRelaxedGuard(n)

\* lines 38-45: the relaxed guard, without its upper bounds when the matched
\* guard has none
RelaxedGuardFor(n, t) ==
    LET upperBounded == \E i \in 1 .. Len(t.guard) : isUpperBound(t.guard[i])
        relaxedGuard == toRelaxedGuard(n)
    IN  IF ~upperBounded
        THEN SelectSeq(relaxedGuard, LAMBDA k : ~isUpperBound(k))
        ELSE relaxedGuard

\* line 47 without its second test
RelaxesOneSided(relaxedGuard, t) == isWeaker(relaxedGuard, t.guard)

\* line 47: the relaxation is accepted
Relaxes(relaxedGuard, t) ==
    isWeaker(relaxedGuard, t.guard) /\ ~isWeaker(t.guard, relaxedGuard)

\* lines 53-104 with the internal step following the neighbor itself
PropagateKeepsNeighbor(n, t, neighborSuccessor, nx) ==
    IF IsInternalReset(n, t) THEN <<t.target, n>>
    ELSE LET targetClockSize == TargetClockSize(nx[t.target]) IN
         IF AllConstantAssigned(t.resetVars, targetClockSize) THEN None
         ELSE IF AllImpreciseOverwritten(n, t.resetVars) THEN None
         ELSE <<t.target, makeAfterExternalTransition(n, t.resetVars, targetClockSize)>>

\* lines 53-104: the pair to follow after a relaxed transition, or None
Propagate(n, t, neighborSuccessor, nx) ==
    IF IsInternalReset(n, t) THEN <<t.target, neighborSuccessor>>
    ELSE LET targetClockSize == TargetClockSize(nx[t.target]) IN
         IF AllConstantAssigned(t.resetVars, targetClockSize) THEN None
         ELSE IF AllImpreciseOverwritten(n, t.resetVars) THEN None
         ELSE <<t.target, makeAfterExternalTransition(n, t.resetVars, targetClockSize)>>

\* handleOne that follows the transition also when the relaxation is refused
HandleOneFollowsUnrelaxed(n, t, neighborSuccessor, nx, mb, nm) ==
    IF match(n, t)
    THEN LET upperBounded == \E i \in 1 .. Len(t.guard) : isUpperBound(t.guard[i])
             relaxedGuard == RelaxedGuardFor(n, t)
         IN  [transition |-> t, matched |-> TRUE,
              staged |-> IF Relaxes(relaxedGuard, t)
                         THEN TATransition(t.target, t.resetVars, relaxedGuard)
                         ELSE None,
              result |-> Propagate(n, t, neighborSuccessor, nx),
              matchBounded |-> mb \/ upperBounded, noMatch |-> FALSE]
    ELSE [transition |-> t, matched |-> FALSE, staged |-> None, result |-> None,
          matchBounded |-> mb, noMatch |-> nm]

\* handleOne: what it returns (result), the transition it put on newTransitions
\* (staged) and the new values of matchBounded and noMatch
handleOne(n, t, neighborSuccessor, nx, mb, nm) ==
    IF match(n, t)
    THEN LET upperBounded == \E i \in 1 .. Len(t.guard) : isUpperBound(t.guard[i])
             relaxedGuard == RelaxedGuardFor(n, t)
         IN  IF Relaxes(relaxedGuard, t)
             THEN [transition |-> t, matched |-> TRUE,
                   staged |-> TATransition(t.target, t.resetVars, relaxedGuard),
                   result |-> Propagate(n, t, neighborSuccessor, nx),
                   matchBounded |-> mb \/ upperBounded, noMatch |-> FALSE]
             ELSE [transition |-> t, matched |-> TRUE, staged |-> None, result |-> None,
                   matchBounded |-> mb \/ upperBounded, noMatch |-> FALSE]
    ELSE [transition |-> t, matched |-> FALSE, staged |-> None, result |-> None,
          matchBounded |-> mb, noMatch |-> nm]

\* lines 152-157: the loop over the transitions of one action; the sequence of
\* what handleOne did for each
RECURSIVE ScanTransitions(_, _, _, _, _, _, _)
ScanTransitions(n, transitions, i, neighborSuccessor, nx, mb, nm) ==
    IF i > Len(transitions) THEN <<>>
    ELSE LET h == handleOne(n, transitions[i], neighborSuccessor, nx, mb, nm)
         IN  <<h>> \o ScanTransitions(n, transitions, i + 1, neighborSuccessor, nx,
                                       h.matchBounded, h.noMatch)

RECURSIVE StagedOf(_)
StagedOf(hs) ==
    IF hs = <<>> THEN <<>>
    ELSE (IF Head(hs).staged = None THEN <<>> ELSE <<Head(hs).staged>>) \o StagedOf(Tail(hs))

\* push: the renaming relation says whether a clock is imprecise between the
\* two timed conditions, that is whether some pair of it relates clocks whose
\* values differ
RenamingImpreciseClocks(renaming, sourceCondition, targetCondition) ==
    \E e \in renaming :
        /\ e[1] < Len(sourceCondition)
        /\ e[2] < Len(targetCondition)
        /\ sourceCondition[e[1] + 1] # targetCondition[e[2] + 1]

rightVariables(renaming) == {e[2] : e \in renaming}

\* ---------------------------------------------------------- guards used
\* one-clock guards over clock 0
GuardLe1 == <<Le(0, 1)>>
GuardGe1 == <<Ge(0, 1)>>
GuardLt1 == <<Lt(0, 1)>>
GuardLe2 == <<Le(0, 2)>>
Guard1To3 == <<Ge(0, 1), Le(0, 3)>>
GuardGe3 == <<Ge(0, 3)>>
Guard0To1 == <<Ge(0, 0), Le(0, 1)>>
GuardTrue == <<>>
GuardGe2 == <<Ge(0, 2)>>

NoResets == <<>>
ResetX0 == <<<<0, ConstVal(0)>>>>
\* clock 0 := 0.5, a constant that is no integer
ResetHalf == <<<<0, ConstVal(1)>>>>

\* ------------------------------------------------------------ actions
\* the learner builds the automaton: state->next[a].emplace_back(target, resets, guard)
AddTransition(s, a, t) ==
    /\ pc = "build"
    /\ next' = EmplaceBack(next, s, a, t)
    /\ UNCHANGED <<states, initialStates, isMatch, ndebug, pc, op, runVars>>

\* a call of state->deterministic()
CallDeterministic(s) ==
    /\ pc \in {"build", "called"}
    /\ op' = [name |-> "deterministic", state |-> s, before |-> next[s],
              result |-> deterministic(next[s])]
    /\ pc' = "called"
    /\ UNCHANGED <<states, initialStates, isMatch, next, ndebug, runVars>>

\* a call of state->mergeNondeterministicBranching()
CallMerge(s) ==
    /\ pc \in {"build", "called"}
    /\ \E r \in {mergeNondeterministicBranching(next[s], isMatch, ndebug)} :
           /\ next' = [next EXCEPT ![s] = r.next]
           /\ pc' = IF r.aborted THEN "aborted" ELSE "called"
           /\ op' = [name |-> "merge", state |-> s, before |-> next[s],
                     aborted |-> r.aborted, mismatch |-> r.mismatch,
                     merged |-> r.merged]
    /\ UNCHANGED <<states, initialStates, isMatch, ndebug, runVars>>

\* --------------------------------- the TAState operations on one state
StateGuards ==
    {GuardLe1, GuardGe1, GuardLt1, GuardLe2, Guard1To3, GuardGe3, Guard0To1}

StateTransitionsA ==
    {TATransition(2, NoResets, g) : g \in StateGuards}
    \cup {TATransition(3, NoResets, g) : g \in {GuardGe1, GuardLe2}}
    \cup {TATransition(1, NoResets, Guard1To3)}

StateTransitionsB ==
    {TATransition(2, NoResets, g) : g \in {GuardLe1, GuardGe1}}

\* the states whose operations are called
Owners == {1}

InitState ==
    /\ states = <<1, 2, 3>>
    /\ initialStates = <<1>>
    /\ isMatch = [s \in StateIds |-> s # 3]
    /\ next = EmptyNext
    /\ ndebug \in BOOLEAN
    /\ pc = "build"
    /\ op = [name |-> "none"]
    /\ HandlerIdle

NextState ==
    \/ /\ TransitionCount(next) < MaxTransitions
       /\ \E s \in Owners, t \in StateTransitionsA : AddTransition(s, ActA, t)
    \/ /\ TransitionCount(next) < MaxTransitions
       /\ \E s \in Owners, t \in StateTransitionsB : AddTransition(s, ActB, t)
    \/ \E s \in Owners : CallDeterministic(s)
    \/ \E s \in Owners : CallMerge(s)

SpecState == InitState /\ [][NextState]_vars

\* --------------------- the merge on transitions with and without resets
MergeTransitions ==
    {TATransition(2, NoResets, g) : g \in {GuardLe1, GuardLe2, GuardGe3, Guard0To1}}
    \cup {TATransition(2, ResetX0, GuardLe1), TATransition(2, ResetHalf, GuardLe2)}
    \cup {TATransition(1, NoResets, Guard1To3), TATransition(1, ResetHalf, GuardGe1)}

NextMerge ==
    \/ /\ TransitionCount(next) < MaxTransitions
       /\ \E s \in Owners, t \in MergeTransitions : AddTransition(s, ActA, t)
    \/ \E s \in Owners : CallDeterministic(s)
    \/ \E s \in Owners : CallMerge(s)

SpecMerge == InitState /\ [][NextMerge]_vars

\* a call of automaton.simplifyWithZones()
CallSimplify ==
    /\ pc \in {"build", "called"}
    /\ \E before \in {[states |-> states, initialStates |-> initialStates, next |-> next]} :
       \E after \in {simplifyWithZones(before, isMatch)} :
           /\ states' = after.states
           /\ initialStates' = after.initialStates
           /\ next' = after.next
           \* op.successive: this call directly follows another call;
           \* op.firstChanged: the first call of the succession changed something
           /\ op' = [name |-> "simplify", before |-> before,
                     successive |-> op.name = "simplify",
                     firstChanged |-> IF op.name = "simplify" THEN op.firstChanged
                                      ELSE after # before]
    /\ pc' = "called"
    /\ UNCHANGED <<isMatch, ndebug, runVars>>

\* ---------------------------- simplifyWithZones on a three-state automaton
SimplifyLabels ==
    {<<ActA, NoResets, GuardLe1>>, <<ActA, NoResets, GuardGe2>>, <<ActB, ResetX0, GuardLe1>>}

SimplifyEdges == {<<1, 1>>, <<1, 2>>, <<1, 3>>, <<2, 2>>, <<2, 3>>, <<3, 2>>, <<3, 3>>}

InitSimplify ==
    /\ states = <<1, 2, 3>>
    /\ initialStates \in {<<1>>, <<1, 3>>}
    /\ isMatch = [s \in StateIds |-> s = 2]
    /\ next = EmptyNext
    /\ ndebug = FALSE
    /\ pc = "build"
    /\ op = [name |-> "none"]
    /\ HandlerIdle

NextSimplify ==
    \/ /\ TransitionCount(next) < MaxTransitions
       /\ \E e \in SimplifyEdges, l \in SimplifyLabels :
            AddTransition(e[1], l[1], TATransition(e[2], l[2], l[3]))
    \/ CallSimplify

SpecSimplify == InitSimplify /\ [][NextSimplify]_vars

\* ------------------------------------------- ImpreciseClockHandler::run
\* line 158 with the staged transitions taking the place of the list
ReplaceByStaged(transitions, newTransitions) ==
    IF newTransitions = <<>> THEN transitions ELSE newTransitions

\* line 158: the staged transitions go to the back of the list of the action
AppendStaged(transitions, newTransitions) == transitions \o newTransitions

\* lines 122-123 with the neighbor condition made of the source language
PushedPairOfSource(jumpedState, renaming, source, target) ==
    <<jumpedState, NeighborConditions(source.word, source.pos, rightVariables(renaming))>>

\* lines 122-123: the pair push() puts in the work-set
PushedPair(jumpedState, renaming, source, target) ==
    <<jumpedState, NeighborConditions(target.word, target.pos, rightVariables(renaming))>>

\* handler.push(jumpedState, renamingRelation, sourceElementary, targetElementary);
\* op keeps the arguments and the work-set of before the call
Push(jumpedState, renaming, source, target) ==
    /\ pc = "build"
    /\ \E imprecise \in {RenamingImpreciseClocks(renaming, source.pos, target.pos)} :
           /\ impreciseNeighbors' =
                 IF imprecise
                 THEN impreciseNeighbors \cup {PushedPair(jumpedState, renaming, source, target)}
                 ELSE impreciseNeighbors
           /\ op' = [name |-> "push", inserted |-> imprecise, before |-> impreciseNeighbors,
                     jumpedState |-> jumpedState, renaming |-> renaming,
                     source |-> source, target |-> target]
    /\ UNCHANGED <<states, initialStates, isMatch, next, ndebug, pc,
                   visited, curState, neighbor, matchBounded, noMatch, todo>>

\* line 131: run() is called; op.start keeps the transitions of that moment
\* and op.expanded the pairs the call has expanded so far
StartRun ==
    /\ pc = "build"
    /\ pc' = "outer"
    /\ visited' = {}
    /\ op' = [name |-> "run", start |-> next, pushed |-> impreciseNeighbors, first |-> None,
              expanded |-> {}]
    /\ UNCHANGED <<states, initialStates, isMatch, next, ndebug,
                   impreciseNeighbors, curState, neighbor, matchBounded, noMatch, todo>>

\* run() is called once more on the automaton and the work-set the first call
\* was given, so that the outcomes of two orders of the work-set can be compared;
\* op.first keeps the transitions the first call left
RunAgain ==
    /\ pc = "done"
    /\ op.first = None
    /\ pc' = "outer"
    /\ next' = op.start
    /\ impreciseNeighbors' = op.pushed
    /\ visited' = {}
    /\ curState' = 1
    /\ neighbor' = None
    /\ matchBounded' = FALSE
    /\ noMatch' = FALSE
    /\ todo' = {}
    /\ op' = [name |-> "run", start |-> op.start, pushed |-> op.pushed, first |-> next,
              expanded |-> {}]
    /\ UNCHANGED <<states, initialStates, isMatch, ndebug>>

\* Pop without the test of lines 137-139: a pair is expanded whether or not its
\* hash is in the visited set
PopIgnoresVisited ==
    /\ pc = "outer"
    /\ \E p \in impreciseNeighbors :
       \E hash \in {HashValue(p)} :
           /\ impreciseNeighbors' = impreciseNeighbors \ {p}
           /\ visited' = visited \cup {hash}
           /\ curState' = p[1]
           /\ neighbor' = p[2]
           /\ noMatch' = TRUE
           /\ matchBounded' = FALSE
           /\ todo' = DOMAIN next[p[1]]
           /\ pc' = "scan"
           /\ op' = [name |-> "pop", start |-> op.start, pushed |-> op.pushed,
                     first |-> op.first, expanded |-> op.expanded \cup {p},
                     pair |-> p, skipped |-> FALSE]
    /\ UNCHANGED <<states, initialStates, isMatch, next, ndebug>>

\* lines 132-147: one pass of the outer loop up to the first round of the
\* inner loop; begin() of an unordered set is any of its elements
Pop ==
    /\ pc = "outer"
    /\ \E p \in impreciseNeighbors :
       \E hash \in {HashValue(p)} :
           /\ impreciseNeighbors' = impreciseNeighbors \ {p}
           /\ IF hash \in visited
              THEN /\ op' = [name |-> "pop", start |-> op.start, pushed |-> op.pushed,
                              first |-> op.first, expanded |-> op.expanded,
                              pair |-> p, skipped |-> TRUE]
                   /\ UNCHANGED <<pc, visited, curState, neighbor, matchBounded, noMatch, todo>>
              ELSE /\ visited' = visited \cup {hash}
                   /\ curState' = p[1]
                   /\ neighbor' = p[2]
                   /\ noMatch' = TRUE
                   /\ matchBounded' = FALSE
                   /\ todo' = DOMAIN next[p[1]]
                   /\ pc' = "scan"
                   /\ op' = [name |-> "pop", start |-> op.start, pushed |-> op.pushed,
                             first |-> op.first, expanded |-> op.expanded \cup {p},
                             pair |-> p, skipped |-> FALSE]
    /\ UNCHANGED <<states, initialStates, isMatch, next, ndebug>>

\* lines 149-159: the body of the loop over state->next for one action; an
\* unordered map is visited in any order
ScanAction(action) ==
    /\ pc = "scan"
    /\ action \in todo
    /\ \E neighborSuccessor \in {successor(neighbor, action)} :
       \E hs \in {ScanTransitions(neighbor, next[curState][action], 1, neighborSuccessor,
                                  next, matchBounded, noMatch)} :
           /\ next' = [next EXCEPT ![curState][action] = AppendStaged(@, StagedOf(hs))]
           /\ impreciseNeighbors' =
                 impreciseNeighbors \cup {hs[i].result : i \in {j \in 1 .. Len(hs) : hs[j].result # None}}
           /\ matchBounded' = IF hs = <<>> THEN matchBounded ELSE hs[Len(hs)].matchBounded
           /\ noMatch' = IF hs = <<>> THEN noMatch ELSE hs[Len(hs)].noMatch
           /\ op' = [name |-> "scan", start |-> op.start, pushed |-> op.pushed, first |-> op.first, expanded |-> op.expanded, action |-> action,
                     transitions |-> next[curState][action],
                     neighborSuccessor |-> neighborSuccessor, log |-> hs]
    /\ todo' = todo \ {action}
    /\ UNCHANGED <<states, initialStates, isMatch, ndebug, pc, visited, curState, neighbor>>

\* line 160: after the scan of every action the neighbor advances
EndRound ==
    /\ pc = "scan"
    /\ todo = {}
    /\ neighbor' = successorAssign(neighbor)
    /\ pc' = "test"
    /\ op' = [name |-> "round", start |-> op.start, pushed |-> op.pushed, first |-> op.first, expanded |-> op.expanded]
    /\ UNCHANGED <<states, initialStates, isMatch, next, ndebug,
                   impreciseNeighbors, visited, curState, matchBounded, noMatch, todo>>

\* LoopTest with while (matchBounded): a round without any match ends the loop
LoopTestIgnoresNoMatch ==
    /\ pc = "test"
    /\ IF matchBounded
       THEN /\ matchBounded' = FALSE
            /\ todo' = DOMAIN next[curState]
            /\ pc' = "scan"
       ELSE /\ pc' = "outer"
            /\ UNCHANGED <<matchBounded, todo>>
    /\ op' = [name |-> "test", start |-> op.start, pushed |-> op.pushed, first |-> op.first, expanded |-> op.expanded, again |-> matchBounded]
    /\ UNCHANGED <<states, initialStates, isMatch, next, ndebug,
                   impreciseNeighbors, visited, curState, neighbor, noMatch>>

\* lines 161, 143-147: the test of the do-while loop and the start of the next
\* round
LoopTest ==
    /\ pc = "test"
    /\ IF matchBounded \/ noMatch
       THEN /\ matchBounded' = FALSE
            /\ todo' = DOMAIN next[curState]
            /\ pc' = "scan"
       ELSE /\ pc' = "outer"
            /\ UNCHANGED <<matchBounded, todo>>
    /\ op' = [name |-> "test", start |-> op.start, pushed |-> op.pushed, first |-> op.first, expanded |-> op.expanded, again |-> matchBounded \/ noMatch]
    /\ UNCHANGED <<states, initialStates, isMatch, next, ndebug,
                   impreciseNeighbors, visited, curState, neighbor, noMatch>>

\* lines 132, 163: the work-set is empty, run() returns
Return ==
    /\ pc = "outer"
    /\ impreciseNeighbors = {}
    /\ pc' = "done"
    /\ op' = [name |-> "return", start |-> op.start, pushed |-> op.pushed, first |-> op.first, expanded |-> op.expanded]
    /\ UNCHANGED <<states, initialStates, isMatch, next, ndebug, runVars>>

\* ------------------------------------ the handler on a three-state automaton
\* the guards of the automaton compare with constants below MaxConst, so that
\* the relaxed guards, which reach one constant further, stay within MaxConst
GuardEq1 == <<Ge(0, 1), Le(0, 1)>>
\* the reset of an internal transition after a word with one clock
ResetNew == <<<<1, ConstVal(0)>>>>

RunLabels ==
    {<<ActA, ResetNew, GuardEq1>>, <<ActB, NoResets, GuardGe1>>, <<ActB, ResetX0, GuardLe1>>}

RunEdges == {<<1, 2>>, <<2, 3>>}

\* the elementary languages of push(): the empty word with its clock in a region
PushLanguages == {[word |-> <<>>, pos |-> <<r>>] : r \in {1, 2}}
PushRenamings == {{<<0, 0>>}}
PushStates == {1, 2}

Init ==
    /\ states = <<1, 2, 3>>
    /\ initialStates = <<1>>
    /\ isMatch = [s \in StateIds |-> s = 3]
    /\ next = EmptyNext
    /\ ndebug = FALSE
    /\ pc = "build"
    /\ op = [name |-> "none"]
    /\ HandlerIdle

RunStep ==
    \/ Pop
    \/ \E a \in {ActA, ActB} : ScanAction(a)
    \/ EndRound
    \/ LoopTest
    \/ Return

Next ==
    \/ /\ TransitionCount(next) < MaxRunTransitions
       /\ \E e \in RunEdges, l \in RunLabels :
            AddTransition(e[1], l[1], TATransition(e[2], l[2], l[3]))
    \/ /\ Cardinality(impreciseNeighbors) < MaxPush
       /\ \E s \in PushStates, r \in PushRenamings, src \in PushLanguages, tgt \in PushLanguages :
            Push(s, r, src, tgt)
    \/ StartRun
    \/ RunStep

Spec == Init /\ [][Next]_vars

\* run() is scheduled until it returns: nothing suspends or cancels it
FairSpec == Init /\ [][Next]_vars /\ WF_vars(RunStep)

\* ------------------ addUpperBoundForUnobservableTransitions on one state
\* a call of state->addUpperBoundForUnobservableTransitions()
CallAddUpperBound(s, bound) ==
    /\ pc \in {"build", "called"}
    /\ next' = [next EXCEPT ![s] = addUpperBoundForUnobservableTransitions(@, bound)]
    /\ op' = [name |-> "upper", state |-> s, before |-> next]
    /\ pc' = "called"
    /\ UNCHANGED <<states, initialStates, isMatch, ndebug, runVars>>

UpperTransitionsU ==
    {TATransition(2, NoResets, g) : g \in {GuardGe1, GuardLe1, GuardTrue}}
    \cup {TATransition(3, ResetX0, GuardGe2)}

UpperTransitionsA ==
    {TATransition(2, ResetX0, GuardGe1), TATransition(3, NoResets, GuardLe2)}

\* the upper bounds addUpperBound chooses from
UpperBounds == {Le(0, MaxConst), Lt(1, MaxConst)}

NextUpper ==
    \/ /\ TransitionCount(next) < MaxTransitions
       /\ \E s \in Owners, t \in UpperTransitionsU : AddTransition(s, UNOBSERVABLE, t)
    \/ /\ TransitionCount(next) < MaxTransitions
       /\ \E s \in Owners, t \in UpperTransitionsA : AddTransition(s, ActA, t)
    \/ \E s \in Owners, bound \in UpperBounds : CallAddUpperBound(s, bound)

SpecUpper == InitState /\ [][NextUpper]_vars

\* ------------------------------------------------------ timed conditions
\* Bounds {c, b}: the bound "< c" when b is false and "<= c" when b is true
Bounds(c, nonStrict) == <<c, nonStrict>>

\* the sum of two bounds with "<=" whenever one of them has it
BoundsAddLoose(b1, b2) == Bounds(b1[1] + b2[1], b1[2] \/ b2[2])

\* the sum of two bounds: "<=" only when both are
BoundsAdd(b1, b2) == Bounds(b1[1] + b2[1], b1[2] /\ b2[2])

\* the values of a sum of durations: upper is the bound on the sum, lower the
\* bound on its negation
Interval(lower, upper) == [lower |-> lower, upper |-> upper]
PointInterval(c) == Interval(Bounds(0 - c, TRUE), Bounds(c, TRUE))
OpenInterval(c) == Interval(Bounds(0 - c, FALSE), Bounds(c + 1, FALSE))

IntervalAdd(a, b) == Interval(BoundsAdd(a.lower, b.lower), BoundsAdd(a.upper, b.upper))

\* TimedCondition over the durations tau_0 .. tau_(size-1): T[<<i, j>>] bounds
\* tau_i + ... + tau_j
CondPairs(size) == {p \in (0 .. size - 1) \X (0 .. size - 1) : p[1] <= p[2]}
TimedCondition(size, T) == [size |-> size, T |-> T]

\* left.concatenate(right, result): the last duration of left and the first
\* duration of right become one duration
concatenate(left, right) ==
    LET m == left.size
        size == left.size + right.size - 1
    IN  TimedCondition(size,
            [p \in CondPairs(size) |->
                IF p[2] < m - 1 THEN left.T[p]
                ELSE IF p[1] > m - 1 THEN right.T[<<p[1] - (m - 1), p[2] - (m - 1)>>]
                ELSE IntervalAdd(left.T[<<p[1], m - 1>>], right.T[<<0, p[2] - (m - 1)>>])])

\* zone.value(a, b) of a timed condition: the bound on x_a - x_b, where x_0 is 0
\* and x_k is tau_(k-1) + ... + tau_(size-1)
ZoneValue(cond, a, b) ==
    IF a = b THEN Bounds(0, TRUE)
    ELSE IF b = 0 THEN cond.T[<<a - 1, cond.size - 1>>].upper
    ELSE IF a = 0 THEN cond.T[<<b - 1, cond.size - 1>>].lower
    ELSE IF a < b THEN cond.T[<<a - 1, b - 2>>].upper
    ELSE cond.T[<<b - 1, a - 2>>].lower

\* a call of left.concatenate(right, result)
CallConcatenate(left, right) ==
    /\ pc = "build"
    /\ op' = [name |-> "concatenate", left |-> left, right |-> right,
              result |-> concatenate(left, right)]
    /\ pc' = "called"
    /\ UNCHANGED <<states, initialStates, isMatch, next, ndebug, runVars>>

\* the simple intervals up to MaxCond
CondIntervals ==
    {PointInterval(c) : c \in 0 .. MaxCond} \cup {OpenInterval(c) : c \in 0 .. MaxCond}

\* the conditions of one duration, and the conditions of two durations in which
\* the bounds of tau_0 + tau_1 are sums of bounds of tau_0 and of tau_1
Conditions1 == {TimedCondition(1, [p \in CondPairs(1) |-> i]) : i \in CondIntervals}
Conditions2 ==
    {TimedCondition(2, [p \in CondPairs(2) |->
                           IF p = <<0, 0>> THEN c[1] ELSE IF p = <<1, 1>> THEN c[2] ELSE c[3]]) :
        c \in {d \in CondIntervals \X CondIntervals \X (CondIntervals \cup {PointInterval(MaxCond + 1)}) :
                  /\ d[3].upper[1] <= d[1].upper[1] + d[2].upper[1]
                  /\ 0 - d[3].lower[1] >= 0 - d[1].lower[1] - d[2].lower[1]
                  /\ d[3].upper[1] >= 1}}

\* the conditions of the test: left is tau_0 in (0,1), tau_0 + tau_1 = 1,
\* tau_1 in (0,1); right is tau_0 in (0,1)
TestLeft ==
    TimedCondition(2, [p \in CondPairs(2) |->
                          IF p = <<0, 1>> THEN PointInterval(1) ELSE OpenInterval(0)])
TestRight == TimedCondition(1, [p \in CondPairs(1) |-> OpenInterval(0)])

NextCondition ==
    \E left \in Conditions1 \cup Conditions2, right \in Conditions1 \cup Conditions2 :
        CallConcatenate(left, right)

SpecCondition == Init /\ [][NextCondition]_vars

\* ------------------------- two calls of run() on the same automaton and pairs
\* transitions without upper bound from state 1 to state 2
OrderLabels == {<<ActB, NoResets, GuardGe1>>, <<ActB, NoResets, GuardGe2>>}

NextOrder ==
    \/ /\ TransitionCount(next) < MaxRunTransitions
       /\ \E l \in OrderLabels : AddTransition(1, l[1], TATransition(2, l[2], l[3]))
    \/ /\ Cardinality(impreciseNeighbors) < MaxPush
       /\ \E r \in PushRenamings, src \in PushLanguages, tgt \in PushLanguages :
            Push(1, r, src, tgt)
    \/ StartRun
    \/ RunStep
    \/ RunAgain

SpecOrder == Init /\ [][NextOrder]_vars

\* ---- external transitions: resets of clocks to constants
\* clock 1 := 1.0: a reset of the fresh clock that is no internal step
ResetX1To1 == <<<<1, ConstVal(2)>>>>

ExternalLabels ==
    {<<ActB, ResetX1To1, GuardGe1>>, <<ActB, ResetX0, GuardGe1>>, <<ActB, NoResets, GuardGe1>>}

NextExternal ==
    \/ /\ TransitionCount(next) < MaxRunTransitions
       /\ \E e \in RunEdges, l \in ExternalLabels :
            AddTransition(e[1], l[1], TATransition(e[2], l[2], l[3]))
    \/ /\ Cardinality(impreciseNeighbors) < MaxPush
       /\ \E s \in PushStates, r \in PushRenamings, src \in PushLanguages, tgt \in PushLanguages :
            Push(s, r, src, tgt)
    \/ StartRun
    \/ RunStep

SpecExternal == Init /\ [][NextExternal]_vars

\* ---- external transitions that overwrite, copy or read the imprecise clock
\* clock 0 := clock 1
ResetCopy == <<<<0, ClockVal(1)>>>>
\* clock 0 := 0.0 and clock 1 := clock 0
ResetReadX0 == <<<<0, ConstVal(0)>>, <<1, ClockVal(0)>>>>
\* a guard over clock 1
GuardX1Ge1 == <<Ge(1, 1)>>

OverwriteResets == {NoResets, ResetX0, ResetHalf, ResetCopy, ResetReadX0}

\* the elementary languages pushed: the word a with two clocks, clock 0 in a region
OverwriteLanguages == {[word |-> <<ActA>>, pos |-> <<r, 0>>] : r \in {1, 2}}

NextOverwrite ==
    \/ /\ TransitionCount(next) < MaxRunTransitions
       /\ \E r \in OverwriteResets : AddTransition(1, ActB, TATransition(2, r, GuardGe1))
    \/ /\ TransitionCount(next) < MaxRunTransitions
       /\ AddTransition(2, ActB, TATransition(3, NoResets, GuardX1Ge1))
    \/ /\ Cardinality(impreciseNeighbors) < MaxPush
       /\ \E r \in PushRenamings, src \in OverwriteLanguages, tgt \in OverwriteLanguages :
            Push(1, r, src, tgt)
    \/ StartRun
    \/ RunStep

SpecOverwrite == Init /\ [][NextOverwrite]_vars

\* ---- the visited set: two pairs of state 2 with the same hash value
\* (after a with clock 0 in (0,1) and clock 1 at 1; after b with clock 0 in
\* (1,2) and clock 1 at 0)
CollidingLanguages ==
    {[word |-> <<ActA>>, pos |-> <<1, 2>>], [word |-> <<ActB>>, pos |-> <<3, 0>>]}

NextVisited ==
    \/ NextOverwrite
    \/ /\ Cardinality(impreciseNeighbors) < MaxPush
       /\ \E r \in PushRenamings, src \in OverwriteLanguages, tgt \in CollidingLanguages :
            Push(2, r, src, tgt)

SpecVisited == Init /\ [][NextVisited]_vars

\* ------------------------------------------------------------- claims
\* the valuations of the clocks two guards speak about, for stating what the
\* guards mean
ValuationsOf(g1, g2) == [ClocksOf(g1) \cup ClocksOf(g2) -> Regions]
JointlySatisfiable(g1, g2) ==
    \E v \in ValuationsOf(g1, g2) : SatisfiesGuard(v, g1) /\ SatisfiesGuard(v, g2)
Contains(g1, g2) ==
    \A v \in ValuationsOf(g1, g2) : SatisfiesGuard(v, g2) => SatisfiesGuard(v, g1)

\* C7: deterministic() returns false exactly when some action has two distinct
\* transitions whose guards have a common valuation; it is false for x <= 1 with
\* x >= 1, true for x < 1 with x >= 1, and the call leaves the state as it was
C7_DeterministicIffOverlap ==
    op.name = "deterministic" =>
        LET nx == op.before IN
        /\ op.result = FALSE <=>
              \E a \in DOMAIN nx : \E i, j \in 1 .. Len(nx[a]) :
                  i # j /\ JointlySatisfiable(nx[a][i].guard, nx[a][j].guard)
        /\ \A a \in DOMAIN nx :
              /\ (Len(nx[a]) = 2 /\ nx[a][1].guard = GuardLe1 /\ nx[a][2].guard = GuardGe1)
                    => op.result = FALSE
              /\ (DOMAIN nx = {a} /\ Len(nx[a]) = 2
                    /\ nx[a][1].guard = GuardLt1 /\ nx[a][2].guard = GuardGe1)
                    => op.result = TRUE
        /\ next[op.state] = op.before

\* C7 witness: deterministic() was called on x <= 1 and x >= 1 and said false
C7_Witness ==
    /\ op.name = "deterministic"
    /\ op.result = FALSE
    /\ ActA \in DOMAIN op.before
    /\ Len(op.before[ActA]) = 2
    /\ op.before[ActA][1].guard = GuardLe1
    /\ op.before[ActA][2].guard = GuardGe1

\* the case of C8: action a of the state had exactly two transitions, to the same
\* accepting target, with overlapping guards neither of which contains the other
C8_Case(a) ==
    /\ op.name = "merge"
    /\ ~op.aborted
    /\ a \in DOMAIN op.before
    /\ Len(op.before[a]) = 2
    /\ LET t1 == op.before[a][1]
           t2 == op.before[a][2]
       IN  /\ t1.target = t2.target
           /\ isMatch[t1.target]
           /\ JointlySatisfiable(t1.guard, t2.guard)
           /\ ~Contains(t1.guard, t2.guard)
           /\ ~Contains(t2.guard, t1.guard)

\* C8: in that case the merge leaves one transition for the action, to the same
\* target, whose guard is the union hull of the two guards (x <= 3 for x <= 2 and
\* 1 <= x <= 3) and covers both; neither guard is left in the list
C8_MergeCorrect ==
    \A a \in {UNOBSERVABLE, ActA, ActB} :
        C8_Case(a) =>
            LET t1 == op.before[a][1]
                t2 == op.before[a][2]
                after == next[op.state][a]
            IN  /\ Len(after) = 1
                /\ after[1].target = t1.target
                /\ after[1].guard = unionHull(<<t1.guard, t2.guard>>)
                /\ Contains(after[1].guard, t1.guard)
                /\ Contains(after[1].guard, t2.guard)
                /\ after[1].guard \notin {t1.guard, t2.guard}
                /\ ({t1.guard, t2.guard} = {GuardLe2, Guard1To3}
                        => after[1].guard = <<Le(0, 3)>>)

\* C8 witness: x <= 2 and 1 <= x <= 3 to the accepting state 2 were merged
C8_Witness ==
    /\ C8_Case(ActA)
    /\ op.before[ActA][1] = TATransition(2, NoResets, GuardLe2)
    /\ op.before[ActA][2] = TATransition(2, NoResets, Guard1To3)
    /\ Len(next[op.state][ActA]) = 1

\* C9: when the merge meets a jointly satisfiable pair whose targets differ in
\* isMatch, the program stops: no such pair is merged and the lists are as before
C9_MismatchAborts ==
    (op.name = "merge" /\ op.mismatch) =>
        /\ op.aborted
        /\ pc = "aborted"
        /\ \A i \in 1 .. Len(op.merged) :
              isMatch[op.merged[i].it2.target] = isMatch[op.merged[i].it3.target]

\* the configurations <<state, valuation>> of the timed automaton reachable from
\* the initial states with all clocks 0, by letting time pass and by taking a
\* transition whose guard the valuation satisfies
ConfigSuccessors(c, nx) ==
    {<<c[1], TimeSuccessor(c[2])>>}
    \cup UNION {{<<nx[c[1]][a][i].target, ApplyResets(c[2], nx[c[1]][a][i].resetVars)>> :
                    i \in {j \in 1 .. Len(nx[c[1]][a]) :
                              SatisfiesGuard(c[2], nx[c[1]][a][j].guard)}} :
                a \in DOMAIN nx[c[1]]}

RECURSIVE ConfigReach(_, _, _)
ConfigReach(frontier, seen, nx) ==
    IF frontier = {} THEN seen
    ELSE LET fresh == UNION {ConfigSuccessors(c, nx) : c \in frontier} \ seen
         IN  ConfigReach(fresh, seen \cup fresh, nx)

ReachableConfigs(inits, nx) ==
    LET start == {<<inits[i], ZeroValuation(nx)>> : i \in 1 .. Len(inits)}
    IN  ConfigReach(start, start, nx)

\* C4: after simplifyWithZones every remaining state is reached from a remaining
\* initial state along remaining transitions by some run of the automaton
C4_LiveStateClosure ==
    op.name = "simplify" =>
        LET reach == ReachableConfigs(initialStates, next)
        IN  \A q \in Range(states) : \E c \in reach : c[1] = q

\* C4 witness: a call removed a state and left the initial state and another one
C4_Witness ==
    /\ op.name = "simplify"
    /\ Len(op.before.states) = 3
    /\ Len(states) = 2
    /\ initialStates = <<1>>

\* C5: after simplifyWithZones every transition's target and every initial state
\* is a remaining state and no action key has an empty list
C5_Closed ==
    op.name = "simplify" =>
        /\ \A q \in Range(states) : \A a \in DOMAIN next[q] :
              /\ next[q][a] # <<>>
              /\ \A i \in 1 .. Len(next[q][a]) : next[q][a][i].target \in Range(states)
        /\ Range(initialStates) \subseteq Range(states)

\* C5 witness: a call removed a state, a transition into it and, with it, the
\* whole action key of a remaining state
C5_Witness ==
    /\ op.name = "simplify"
    /\ Len(states) = 2
    /\ \E q \in Range(states) : \E a \in DOMAIN op.before.next[q] :
          /\ a \notin DOMAIN next[q]
          /\ \E i \in 1 .. Len(op.before.next[q][a]) :
                op.before.next[q][a][i].target \notin Range(states)

\* C6: a call of simplifyWithZones directly after another one changes nothing
C6_Idempotent ==
    (op.name = "simplify" /\ op.successive) =>
        [states |-> states, initialStates |-> initialStates, next |-> next] = op.before

\* C6 witness: the second call in succession, after a first one that removed
\* something and left transitions
C6_Witness ==
    /\ op.name = "simplify"
    /\ op.successive
    /\ op.firstChanged
    /\ TransitionCount(next) >= 2

\* C1: run() terminates: once it is called it leaves its inner and its outer
\* loop and returns, whatever the popped states and whether or not a transition
\* ever matches the popped neighbor condition
C1_RunReturns == (pc = "outer") ~> (pc = "done")

IsPrefix(a, b) == Len(a) <= Len(b) /\ SubSeq(b, 1, Len(a)) = a

\* C2: at every point of run() every transition that existed when run() started
\* is still at its place in the list of its state and action, with the same
\* target, reset map and guard
C2_RunOnlyAdds ==
    pc \in {"outer", "scan", "test", "done"} =>
        \A s \in StateIds : \A a \in DOMAIN op.start[s] :
            /\ a \in DOMAIN next[s]
            /\ IsPrefix(op.start[s][a], next[s][a])

\* C2 witness: run() returned and the automaton has more transitions than when
\* it started
C2_Witness ==
    /\ pc = "done"
    /\ TransitionCount(op.start) > 0
    /\ TransitionCount(next) > TransitionCount(op.start)

\* the transitions the scan of an action added to the list of the action
AddedByScan ==
    SubSeq(next[curState][op.action], Len(op.transitions) + 1, Len(next[curState][op.action]))

\* C3: every transition the handler adds comes from a matched transition t of
\* the scanned list, has t's target and reset map, and a guard g with
\* isWeaker(g, t.guard) and not isWeaker(t.guard, g): g holds wherever t.guard
\* holds and somewhere else too
C3_AddedStrictlyWeaker ==
    op.name = "scan" =>
        LET relaxing == {i \in 1 .. Len(op.log) : op.log[i].staged # None}
        IN  /\ Len(op.log) = Len(op.transitions)
            /\ Len(AddedByScan) = Cardinality(relaxing)
            /\ \A k \in 1 .. Len(AddedByScan) :
                  \E i \in relaxing :
                      LET t == op.transitions[i]
                          g == AddedByScan[k].guard
                      IN  /\ op.log[i].matched
                          /\ AddedByScan[k] = op.log[i].staged
                          /\ AddedByScan[k].target = t.target
                          /\ AddedByScan[k].resetVars = t.resetVars
                          /\ isWeaker(g, t.guard)
                          /\ ~isWeaker(t.guard, g)
                          /\ Contains(g, t.guard)
                          /\ ~Contains(t.guard, g)

\* C3 witness: a scan added a relaxed transition
C3_Witness ==
    /\ op.name = "scan"
    /\ Len(AddedByScan) > 0

\* the transitions of the scanned list that matched the neighbor condition and
\* reset only the fresh clock, to 0.0
InternalMatches ==
    {i \in 1 .. Len(op.log) :
        op.log[i].matched /\ IsInternalReset(neighbor, op.transitions[i])}

\* C10 as stated: for every matching transition that resets only the fresh clock
\* to 0.0 the pair of its target and neighbor.successor(action) is put in the
\* work-set, whether or not a relaxed transition was staged for it
C10_InternalStepAlways ==
    op.name = "scan" =>
        \A i \in InternalMatches :
            <<op.transitions[i].target, successor(neighbor, op.action)>> \in impreciseNeighbors

\* C10 amended: the pair is put in the work-set for every such transition for
\* which a relaxed transition was staged, with the successor computed before the
\* scan; for one for which none was staged handleOne gives no pair
C10_InternalStepWhenStaged ==
    op.name = "scan" =>
        /\ op.neighborSuccessor = successor(neighbor, op.action)
        /\ \A i \in InternalMatches :
              IF op.log[i].staged # None
              THEN /\ op.log[i].result = <<op.transitions[i].target, op.neighborSuccessor>>
                   /\ op.log[i].result \in impreciseNeighbors
              ELSE op.log[i].result = None

\* C10 witness: one scan met a matching internal transition that was relaxed and
\* one that was not
C10_Witness ==
    /\ op.name = "scan"
    /\ \E i \in InternalMatches : op.log[i].staged # None
    /\ \E i \in InternalMatches : op.log[i].staged = None

\* the transitions of a state as sets, one for every action
TransitionSets(m) == [a \in DOMAIN m |-> Range(m[a])]

\* C11: two calls of run() on the same automaton and the same pushed pairs leave
\* every state with the same set of transitions, whatever the order in which the
\* pairs were taken out of the work-set
C11_OrderIndependent ==
    (pc = "done" /\ op.first # None) =>
        \A s \in StateIds : TransitionSets(next[s]) = TransitionSets(op.first[s])

\* the pair of the last push(): the pushed state with the neighbor condition of
\* the target elementary language and the right-side clocks of the renaming
C12_Pair ==
    <<op.jumpedState, [word |-> op.target.word, pos |-> op.target.pos,
                       imp |-> {e[2] : e \in op.renaming}]>>

\* C12: every push puts that pair in the work-set if and only if the renaming
\* relation reports an imprecise clock between the source and the target timed
\* condition, leaves the work-set as it was otherwise, and changes no state and
\* no transition of the automaton
C12_PushInsertsIff ==
    [][(op' # op /\ op'.name = "push") =>
          /\ impreciseNeighbors' =
                IF RenamingImpreciseClocks(op'.renaming, op'.source.pos, op'.target.pos)
                THEN impreciseNeighbors \cup {C12_Pair'}
                ELSE impreciseNeighbors
          /\ UNCHANGED <<states, initialStates, isMatch, next>>]_vars

\* C12 witness: a push whose renaming reports an imprecise clock put a new pair
\* in the work-set of a handler whose automaton has transitions
C12_Witness ==
    /\ op.name = "push"
    /\ C12_Pair \in impreciseNeighbors \ op.before
    /\ op.source.pos # op.target.pos
    /\ TransitionCount(next) > 0

\* C13: addUpperBoundForUnobservableTransitions() creates no entry, leaves the
\* transitions of every other action and of every other state as they were,
\* keeps the number, the targets and the reset maps of the unobservable
\* transitions, and leaves each of their guards with an upper bound
C13_OnlyUnobservableGuards ==
    op.name = "upper" =>
        LET before == op.before[op.state]
            after == next[op.state]
        IN  /\ DOMAIN after = DOMAIN before
            /\ \A a \in DOMAIN before \ {UNOBSERVABLE} : after[a] = before[a]
            /\ \A s \in StateIds \ {op.state} : next[s] = op.before[s]
            /\ UNOBSERVABLE \in DOMAIN before =>
                  /\ Len(after[UNOBSERVABLE]) = Len(before[UNOBSERVABLE])
                  /\ \A i \in 1 .. Len(before[UNOBSERVABLE]) :
                        LET t == before[UNOBSERVABLE][i]
                            u == after[UNOBSERVABLE][i]
                        IN  /\ u.target = t.target
                            /\ u.resetVars = t.resetVars
                            /\ \E k \in 1 .. Len(u.guard) : isUpperBound(u.guard[k])

\* C13 witness: the call was made on a state with an unobservable transition
\* whose guard had no upper bound and a transition of another action whose guard
\* had none either
C13_Witness ==
    /\ op.name = "upper"
    /\ UNOBSERVABLE \in DOMAIN op.before[op.state]
    /\ ActA \in DOMAIN op.before[op.state]
    /\ \E i \in 1 .. Len(op.before[op.state][UNOBSERVABLE]) :
          \A k \in 1 .. Len(op.before[op.state][UNOBSERVABLE][i].guard) :
              ~isUpperBound(op.before[op.state][UNOBSERVABLE][i].guard[k])
    /\ \E i \in 1 .. Len(next[op.state][ActA]) :
          \A k \in 1 .. Len(next[op.state][ActA][i].guard) :
              ~isUpperBound(next[op.state][ActA][i].guard[k])

\* C13 witness of the other case: the call was made on a state that has
\* transitions and none of them unobservable
C13_NoEntry ==
    /\ op.name = "upper"
    /\ DOMAIN op.before[op.state] = {ActA}
    /\ next = op.before

StrictlyContained(transitions, i) ==
    \E j \in 1 .. Len(transitions) :
        /\ j # i
        /\ transitions[j].target = transitions[i].target
        /\ isWeaker(transitions[j].guard, transitions[i].guard)
        /\ ~isWeaker(transitions[i].guard, transitions[j].guard)

\* how often t occurs in the list
Occurrences(transitions, t) ==
    Cardinality({i \in 1 .. Len(transitions) : transitions[i] = t})

\* C15: step 1 of mergeNondeterministicBranching removes a transition only when
\* another transition of the same action and target has a guard that is weaker
\* and not equivalent: a transition with no such other transition is still in
\* the list after step 1, as often as before
C15_StepOneOnlyStrict ==
    (op.name = "merge" /\ ~op.aborted) =>
        \A a \in DOMAIN op.before :
            LET transitions == op.before[a]
                kept == RemoveWeakerGuards(transitions, 1)
            IN  \A i \in 1 .. Len(transitions) :
                    ~StrictlyContained(transitions, i) =>
                        Occurrences(kept, transitions[i])
                            = Occurrences(transitions, transitions[i])

\* C15, the case of identical guards: step 1 ran on a list with two transitions
\* to the same target that have the same guard and different resets
C15_SameGuardCase ==
    (op.name = "merge" /\ ~op.aborted) =>
        \A a \in DOMAIN op.before :
            LET transitions == op.before[a]
                kept == RemoveWeakerGuards(transitions, 1)
            IN  \A i, j \in 1 .. Len(transitions) :
                    (/\ i # j
                     /\ transitions[i].guard = transitions[j].guard
                     /\ transitions[i].target = transitions[j].target
                     /\ transitions[i].resetVars # transitions[j].resetVars) =>
                        Occurrences(kept, transitions[i]) > 0

\* C16: after mergeNondeterministicBranching() has returned on a state, no two
\* transitions of the state under the same action have jointly satisfiable
\* guards: deterministic() is true for the state
C16_MergeMakesDeterministic ==
    (op.name = "merge" /\ ~op.aborted) => deterministic(next[op.state])

\* the number of transitions left by step 1 over all actions of a state
AfterStepOneCount(m) ==
    LET n(a) == IF a \in DOMAIN m THEN Len(RemoveWeakerGuards(m[a], 1)) ELSE 0
    IN  n(UNOBSERVABLE) + n(ActA) + n(ActB)

\* C17: every merge of a pair (it2 before it3 in the list) leaves a transition
\* that has target and resets of it3 together when it3's resets have the larger
\* impreciseConstantAssignSize, target and resets of it2 otherwise (also on a
\* tie), and the union hull of both guards as guard; the later transition is
\* erased, so the lists lose one transition for every merge, and after a single
\* merge the merged transition is in the list
C17_MergeTakesMoreImprecise ==
    op.name = "merge" =>
        /\ \A k \in 1 .. Len(op.merged) :
              LET e == op.merged[k]
                  n2 == impreciseConstantAssignSize(e.it2.resetVars)
                  n3 == impreciseConstantAssignSize(e.it3.resetVars)
              IN  /\ n3 > n2 => (/\ e.out.target = e.it3.target
                                 /\ e.out.resetVars = e.it3.resetVars)
                  /\ n3 <= n2 => (/\ e.out.target = e.it2.target
                                  /\ e.out.resetVars = e.it2.resetVars)
                  /\ e.out.guard = unionHull(<<e.it2.guard, e.it3.guard>>)
        /\ ~op.aborted =>
              /\ StateTransitionCount(next[op.state])
                    = AfterStepOneCount(op.before) - Len(op.merged)
              /\ Len(op.merged) = 1 =>
                    \E a \in DOMAIN next[op.state] :
                        Occurrences(next[op.state][a], op.merged[1].out) > 0

\* C17 witness: a merge took target and resets from the later transition, which
\* goes to another state and resets to a constant that is no integer
C17_Witness ==
    /\ op.name = "merge"
    /\ ~op.aborted
    /\ \E k \in 1 .. Len(op.merged) :
          LET e == op.merged[k]
          IN  /\ impreciseConstantAssignSize(e.it2.resetVars)
                    < impreciseConstantAssignSize(e.it3.resetVars)
              /\ e.it2.target # e.it3.target
              /\ e.out.target = e.it3.target
              /\ Occurrences(next[op.state][ActA], e.out) > 0

\* C17 witness of the tie: a merge of two transitions with the same
\* impreciseConstantAssignSize to different states with different resets
C17_TieWitness ==
    /\ op.name = "merge"
    /\ ~op.aborted
    /\ \E k \in 1 .. Len(op.merged) :
          LET e == op.merged[k]
          IN  /\ impreciseConstantAssignSize(e.it2.resetVars)
                    = impreciseConstantAssignSize(e.it3.resetVars)
              /\ e.it2.target # e.it3.target
              /\ e.it2.resetVars # e.it3.resetVars
              /\ e.out.target = e.it2.target

\* a guard with an upper-bound constraint
HasUpperBound(guard) == \E i \in 1 .. Len(guard) : isUpperBound(guard[i])

\* C18: for every transition t of a scan that matched the neighbor: when t's
\* guard has no upper bound, neither the relaxed guard tested for t nor the
\* guard of the transition staged for t has one; when t's guard has an upper
\* bound, the relaxed guard is the one toRelaxedGuard() gave, a transition staged
\* for t has that guard, and matchBounded is true for the round
C18_NoNewUpperBound ==
    op.name = "scan" =>
        \A i \in 1 .. Len(op.log) :
            op.log[i].matched =>
                LET t == op.transitions[i]
                    relaxedGuard == RelaxedGuardFor(neighbor, t)
                    staged == op.log[i].staged
                IN  /\ staged # None => staged.guard = relaxedGuard
                    /\ ~HasUpperBound(t.guard) =>
                          /\ ~HasUpperBound(relaxedGuard)
                          /\ staged # None => ~HasUpperBound(staged.guard)
                    /\ HasUpperBound(t.guard) =>
                          /\ relaxedGuard = toRelaxedGuard(neighbor)
                          /\ staged # None => staged.guard = toRelaxedGuard(neighbor)
                          /\ op.log[i].matchBounded
                          /\ matchBounded

\* C18 witness: a scan staged a transition for a matched transition whose guard
\* has no upper bound, from a neighbor whose relaxed guard has one
C18_Witness ==
    /\ op.name = "scan"
    /\ \E i \in 1 .. Len(op.log) :
          /\ op.log[i].matched
          /\ ~HasUpperBound(op.transitions[i].guard)
          /\ op.log[i].staged # None
          /\ HasUpperBound(toRelaxedGuard(neighbor))

\* C18 witness of the other case: a scan staged a transition for a matched
\* transition whose guard has an upper bound
C18_BoundedWitness ==
    /\ op.name = "scan"
    /\ \E i \in 1 .. Len(op.log) :
          /\ op.log[i].matched
          /\ HasUpperBound(op.transitions[i].guard)
          /\ op.log[i].staged # None
          /\ HasUpperBound(op.log[i].staged.guard)
          /\ matchBounded

\* the calls of handleOne in a scan log that found no match, or a match whose
\* relaxed guard is not weaker than the guard without being equivalent
Refused(log, transitions, n) ==
    {i \in 1 .. Len(log) :
        \/ ~log[i].matched
        \/ ~Relaxes(RelaxedGuardFor(n, transitions[i]), transitions[i])}

\* C19: in every scan step, a call of handleOne for a transition that does not
\* match, or whose relaxed guard is not strictly weaker, gives no pair and stages
\* nothing, and without a match leaves matchBounded and noMatch as they were; a
\* scan in which every call is of this kind leaves the transition lists and the
\* work-set unchanged; the scan goes on normally
C19_RefusalChangesNothing ==
    [][(pc = "scan" /\ todo' # todo) =>
          LET log == op'.log
              refused == Refused(log, op'.transitions, neighbor)
          IN  /\ op'.name = "scan"
              /\ op'.transitions = next[curState][op'.action]
              /\ Len(log) = Len(op'.transitions)
              /\ \A i \in refused :
                    /\ log[i].staged = None
                    /\ log[i].result = None
                    /\ ~log[i].matched =>
                          /\ log[i].matchBounded
                                = (IF i = 1 THEN matchBounded ELSE log[i - 1].matchBounded)
                          /\ log[i].noMatch
                                = (IF i = 1 THEN noMatch ELSE log[i - 1].noMatch)
              /\ refused = 1 .. Len(log) =>
                    /\ next' = next
                    /\ impreciseNeighbors' = impreciseNeighbors
              /\ pc' = "scan"]_vars

\* C19 witness: a scan met a transition that does not match and one that
\* matches without a strictly weaker relaxed guard, and staged nothing
C19_Witness ==
    /\ op.name = "scan"
    /\ \E i, j \in 1 .. Len(op.log) :
          /\ ~op.log[i].matched
          /\ op.log[j].matched
          /\ ~Relaxes(RelaxedGuardFor(neighbor, op.transitions[j]), op.transitions[j])
    /\ \A i \in 1 .. Len(op.log) : op.log[i].staged = None
    /\ next[curState][op.action] = op.transitions

\* the reset map assigns a constant to every clock below targetClockCount
ConstantToEveryClock(resets, targetClockCount) ==
    \A x \in 0 .. (targetClockCount - 1) :
        \E k \in 1 .. Len(resets) : resets[k][1] = x /\ resets[k][2].index = 0

\* C20: in every scan step, for a relaxed transition t that is not the internal
\* step, with targetClockCount one more than the largest clock in a guard of a
\* transition leaving t.target (0 when there is none): handleOne gives no pair
\* when t's resets assign a constant to every clock below targetClockCount; when
\* they leave such a clock without a constant, handleOne gives a pair unless
\* every imprecise clock is overwritten
C20_ConstantSaturation ==
    [][(pc = "scan" /\ todo' # todo) =>
          \A i \in 1 .. Len(op'.log) :
              LET t == op'.transitions[i]
                  targetClockCount == TargetClockSize(next[t.target])
              IN  (op'.log[i].staged # None /\ ~IsInternalReset(neighbor, t)) =>
                      /\ ConstantToEveryClock(t.resetVars, targetClockCount)
                            => op'.log[i].result = None
                      /\ (/\ ~ConstantToEveryClock(t.resetVars, targetClockCount)
                          /\ ~AllImpreciseOverwritten(neighbor, t.resetVars))
                            => op'.log[i].result # None]_vars

\* the resets give every imprecise clock of n an integer constant, and no
\* clock-to-clock reset reads an imprecise clock
ResolvedByIntegerConstants(n, resets) ==
    \A clock \in impreciseClocks(n) :
        /\ \E k \in 1 .. Len(resets) :
              /\ resets[k][1] = clock
              /\ resets[k][2].index = 0
              /\ resets[k][2].val % 2 = 0
        /\ \A k \in 1 .. Len(resets) :
              ~(resets[k][2].index = 1 /\ resets[k][2].val = clock)

\* the resets give every imprecise clock of n an integer constant or the value
\* of a clock, and no clock-to-clock reset reads an imprecise clock
ResolvedByPreciseValues(n, resets) ==
    \A clock \in impreciseClocks(n) :
        /\ \E k \in 1 .. Len(resets) :
              /\ resets[k][1] = clock
              /\ (resets[k][2].index = 1 \/ resets[k][2].val % 2 = 0)
        /\ \A k \in 1 .. Len(resets) :
              ~(resets[k][2].index = 1 /\ resets[k][2].val = clock)

\* the calls of handleOne in the scan log that reached the overwrite rule: the
\* transition was relaxed, is not the internal step, and the test of lines
\* 71-74 did not return
ReachedOverwriteRule(log, transitions, n, nx) ==
    {i \in 1 .. Len(log) :
        /\ log[i].staged # None
        /\ ~IsInternalReset(n, transitions[i])
        /\ ~AllConstantAssigned(transitions[i].resetVars,
                                TargetClockSize(nx[transitions[i].target]))}

\* C21 as stated: in every scan step, a call that reaches the overwrite rule
\* gives no pair only if every imprecise clock is reset to an integer constant
\* and is not read by a clock-to-clock reset; otherwise, also when an imprecise
\* clock is reset to another clock's value, it gives the pair of t.target and
\* makeAfterExternalTransition(t.resetVars, targetClockCount)
C21_OverwriteByIntegerConstant ==
    [][(pc = "scan" /\ todo' # todo) =>
          \A i \in ReachedOverwriteRule(op'.log, op'.transitions, neighbor, next) :
              LET t == op'.transitions[i]
                  targetClockCount == TargetClockSize(next[t.target])
              IN  IF ResolvedByIntegerConstants(neighbor, t.resetVars)
                  THEN op'.log[i].result = None
                  ELSE /\ op'.log[i].result # None
                       /\ op'.log[i].result
                            = <<t.target,
                                makeAfterExternalTransition(neighbor, t.resetVars,
                                                            targetClockCount)>>]_vars

\* C21 amended: such a call gives no pair exactly when every imprecise clock is
\* reset to an integer constant or to the value of a clock and is not read by a
\* clock-to-clock reset; otherwise it gives the pair of t.target and
\* makeAfterExternalTransition(t.resetVars, targetClockCount), which goes into
\* the work-set
C21_OverwriteByPreciseValue ==
    [][(pc = "scan" /\ todo' # todo) =>
          \A i \in ReachedOverwriteRule(op'.log, op'.transitions, neighbor, next) :
              LET t == op'.transitions[i]
                  targetClockCount == TargetClockSize(next[t.target])
              IN  IF ResolvedByPreciseValues(neighbor, t.resetVars)
                  THEN op'.log[i].result = None
                  ELSE /\ op'.log[i].result # None
                       /\ op'.log[i].result
                            = <<t.target,
                                makeAfterExternalTransition(neighbor, t.resetVars,
                                                            targetClockCount)>>
                       /\ op'.log[i].result \in impreciseNeighbors']_vars

\* C21 witness: a scan reached the overwrite rule for a transition that resets
\* the imprecise clock to the value of another clock, and gave no pair
C21_Witness ==
    /\ op.name = "scan"
    /\ \E i \in 1 .. Len(op.log) :
          /\ op.log[i].staged # None
          /\ op.transitions[i].resetVars = ResetCopy
          /\ 0 \in impreciseClocks(neighbor)
          /\ op.log[i].result = None

\* C21 witness of the integer constant: a scan reached the overwrite rule for a
\* transition that resets the imprecise clock to 0.0 and gave no pair
C21_IntegerWitness ==
    /\ op.name = "scan"
    /\ \E i \in 1 .. Len(op.log) :
          /\ op.log[i].staged # None
          /\ op.transitions[i].resetVars = ResetX0
          /\ TargetClockSize(next[op.transitions[i].target]) = 2
          /\ op.log[i].result = None

\* C21 witness of the read clock: a scan gave a pair for a transition that resets
\* the imprecise clock to 0.0 and copies it to another clock
C21_ReadWitness ==
    /\ op.name = "scan"
    /\ \E i \in 1 .. Len(op.log) :
          /\ op.log[i].staged # None
          /\ op.transitions[i].resetVars = ResetReadX0
          /\ op.log[i].result # None

\* the run is between line 131 and its return
InRun == pc \in {"outer", "scan", "test"}

\* C22: within one call of run() the visited set holds the hashes of the pairs
\* expanded so far; a pop takes one pair out of the work-set; when its hash is
\* in the visited set nothing else changes (no scan, no transition added, the
\* neighbor and the flags as they were) and the loop goes on with the next
\* pair; otherwise, and only then, the pair is expanded and its hash joins the
\* visited set, so that no hash is expanded twice
C22_VisitedOnce ==
    [][InRun =>
          /\ visited = {HashValue(p) : p \in op.expanded}
          /\ InRun' => (visited \subseteq visited' /\ op.expanded \subseteq op'.expanded)
          /\ (InRun' /\ pc # "outer") => op'.expanded = op.expanded
          /\ (InRun' /\ pc = "outer") =>
                /\ op'.name = "pop"
                /\ op'.pair \in impreciseNeighbors
                /\ impreciseNeighbors' = impreciseNeighbors \ {op'.pair}
                /\ next' = next
                /\ IF HashValue(op'.pair) \in visited
                   THEN /\ op'.skipped
                        /\ pc' = "outer"
                        /\ op'.expanded = op.expanded
                        /\ UNCHANGED <<visited, curState, neighbor, matchBounded, noMatch, todo>>
                   ELSE /\ ~op'.skipped
                        /\ pc' = "scan"
                        /\ op'.expanded = op.expanded \cup {op'.pair}
                        /\ visited' = visited \cup {HashValue(op'.pair)}
                        /\ curState' = op'.pair[1]
                        /\ neighbor' = op'.pair[2]]_vars

\* C22 witness: a pop skipped a pair that had been expanded before in this call
\* and was put in the work-set again
C22_Witness ==
    /\ op.name = "pop"
    /\ op.skipped
    /\ op.pair \in op.expanded

\* C22 witness of the collision: a pop skipped a pair that was never expanded
\* in this call, because another pair with the same hash was
C22_CollisionWitness ==
    /\ op.name = "pop"
    /\ op.skipped
    /\ op.pair \notin op.expanded

\* the matches in a scan log, and those whose transition has an upper bound
MatchedIn(log) == {i \in 1 .. Len(log) : log[i].matched}
BoundedMatchedIn(log) ==
    {i \in MatchedIn(log) : HasUpperBound(log[i].transition.guard)}

\* C23: the steps of the inner loop of run() for one popped pair. Expanding a
\* pair sets noMatch and starts a round over every action of the state; a scan
\* takes one action not yet scanned in the round, with the neighbor as it is,
\* sets matchBounded when a matched transition has an upper bound and clears
\* noMatch when a transition matched; the round ends when every action is
\* scanned, with exactly one successorAssign(); then the loop starts another
\* round, with matchBounded reset and noMatch kept, exactly when matchBounded
\* or noMatch holds, and otherwise goes back to the work-set
C23_InnerLoopProtocol ==
    [][/\ (pc = "outer" /\ pc' = "scan") =>
            /\ noMatch'
            /\ ~matchBounded'
            /\ todo' = DOMAIN next[curState']
       /\ (pc = "scan" /\ pc' = "scan") =>
            /\ op'.name = "scan"
            /\ op'.action \in todo
            /\ todo' = todo \ {op'.action}
            /\ op'.transitions = next[curState][op'.action]
            /\ Len(op'.log) = Len(op'.transitions)
            /\ \A i \in 1 .. Len(op'.log) :
                  /\ op'.log[i].transition = op'.transitions[i]
                  /\ op'.log[i].matched = match(neighbor, op'.transitions[i])
            /\ matchBounded' = (matchBounded \/ BoundedMatchedIn(op'.log) # {})
            /\ noMatch' = (noMatch /\ MatchedIn(op'.log) = {})
            /\ UNCHANGED <<neighbor, curState>>
       /\ (pc = "scan" /\ pc' # "scan") =>
            /\ pc' = "test"
            /\ todo = {}
            /\ neighbor' = successorAssign(neighbor)
            /\ UNCHANGED <<matchBounded, noMatch, next, curState, impreciseNeighbors>>
       /\ pc = "test" =>
            /\ pc' = (IF matchBounded \/ noMatch THEN "scan" ELSE "outer")
            /\ pc' = "scan" => (~matchBounded' /\ todo' = DOMAIN next[curState])
            /\ UNCHANGED <<noMatch, neighbor, next, curState, impreciseNeighbors>>]_vars

\* C23 witness: a round in which a matched transition had an upper bound, after
\* a match was seen, was followed by another round
C23_Witness ==
    /\ op.name = "test"
    /\ op.again
    /\ ~noMatch
    /\ pc = "scan"

\* C23 witness of the round without a match so far, which is followed by
\* another round
C23_NoMatchWitness ==
    /\ op.name = "test"
    /\ op.again
    /\ noMatch
    /\ pc = "scan"

\* C23 witness of the end: the loop stopped after a round in which a match had
\* been seen and no matched transition had an upper bound
C23_StopWitness ==
    /\ op.name = "test"
    /\ ~op.again
    /\ pc = "outer"
    /\ ~noMatch

\* the zone automaton of aut after removeDeadStates: the live pairs and the
\* edges between them
PrunedZoneAutomaton(aut, accepting) ==
    LET nodes == ta2za(aut.initialStates, aut.next)
        edges == UNION {ZAEdgesFrom(n, aut.next) : n \in nodes}
        live  == removeDeadStates(nodes, edges, accepting)
    IN  [states |-> live, edges |-> {e \in edges : e[1] \in live /\ e[4] \in live}]

\* C24: after simplifyWithZones the list of every remaining state under every
\* action is the list of before without the transitions whose target is not
\* live or that were not traversed under that action from a live pair of the
\* state (no edge of the zone automaton leaving a live pair of the state has
\* that action and a transition equal to it); an action whose list becomes
\* empty has no entry, so that a state without a traversed transition has an
\* empty table
C24_KeptIffTraversed ==
    op.name = "simplify" =>
        \A za \in {PrunedZoneAutomaton(op.before, isMatch)} :
            LET liveStates == {n[1] : n \in za.states}
                traversed == {<<e[1][1], e[2], e[3]>> : e \in za.edges}
            IN  \A q \in Range(states) :
                    /\ DOMAIN next[q] \subseteq DOMAIN op.before.next[q]
                    /\ \A a \in DOMAIN op.before.next[q] :
                          LET kept == SelectSeq(op.before.next[q][a],
                                          LAMBDA t : /\ t.target \in liveStates
                                                     /\ <<q, a, t>> \in traversed)
                          IN  IF kept = <<>> THEN a \notin DOMAIN next[q]
                              ELSE a \in DOMAIN next[q] /\ next[q][a] = kept

\* C24 witness: a call removed from a remaining state a transition to a
\* remaining state, which was not traversed, and kept another transition of
\* that state
C24_Witness ==
    /\ op.name = "simplify"
    /\ \E q \in Range(states) : \E a \in DOMAIN op.before.next[q] :
          \E i \in 1 .. Len(op.before.next[q][a]) :
              LET t == op.before.next[q][a][i]
              IN  /\ t.target \in Range(states)
                  /\ (a \notin DOMAIN next[q] \/ t \notin Range(next[q][a]))
                  /\ next[q] # <<>>

\* C24 witness of the empty table: a remaining state had transitions to
\* remaining states only, none of them traversed, and has none after the call
C24_EmptyWitness ==
    /\ op.name = "simplify"
    /\ \E q \in Range(states) :
          /\ op.before.next[q] # <<>>
          /\ \A a \in DOMAIN op.before.next[q] :
                \A i \in 1 .. Len(op.before.next[q][a]) :
                    op.before.next[q][a][i].target \in Range(states)
          /\ next[q] = <<>>

\* the configurations of reach from which a run of the automaton reaches an
\* accepting state
RECURSIVE CoReach(_, _, _)
CoReach(found, reach, nx) ==
    LET more == {c \in reach \ found : ConfigSuccessors(c, nx) \cap found # {}}
    IN  IF more = {} THEN found ELSE CoReach(found \cup more, reach, nx)

\* the states with a configuration, reachable from the initial states, from
\* which a run of the automaton reaches an accepting state
StatesWithLiveConfig(inits, nx, accepting) ==
    LET reach == ReachableConfigs(inits, nx)
    IN  {c[1] : c \in CoReach({d \in reach : accepting[d[1]]}, reach, nx)}

\* C25: after simplifyWithZones every remaining state has a reachable
\* configuration from which a run over the remaining transitions reaches an
\* accepting state; a state of before that had no such configuration is not a
\* remaining state and no remaining transition targets it
C25_NoDeadState ==
    op.name = "simplify" =>
        \A liveAfter \in {StatesWithLiveConfig(initialStates, next, isMatch)} :
        \A liveBefore \in {StatesWithLiveConfig(op.before.initialStates,
                                                op.before.next, isMatch)} :
            /\ Range(states) \subseteq liveAfter
            /\ \A q \in Range(op.before.states) \ liveBefore :
                  /\ q \notin Range(states)
                  /\ \A p \in Range(states) : \A a \in DOMAIN next[p] :
                        \A i \in 1 .. Len(next[p][a]) : next[p][a][i].target # q

\* C25 witness: a call deleted a state that was reached by a run but from which
\* no run reached an accepting state, with a transition into it from a state
\* that remains
C25_Witness ==
    /\ op.name = "simplify"
    /\ \E q \in Range(op.before.states) \ Range(states) :
          /\ \E c \in ReachableConfigs(op.before.initialStates, op.before.next) : c[1] = q
          /\ \E p \in Range(states) : \E a \in DOMAIN op.before.next[p] :
                \E i \in 1 .. Len(op.before.next[p][a]) :
                    op.before.next[p][a][i].target = q
    /\ states # <<>>

====
